---- MODULE Spec2Model ----
(***************************************************************************)
(* gmtime() of src/libc/gmtime.c: the conversion of a time_t (seconds      *)
(* since 1970-01-01T00:00:00Z) into the broken-down struct tm kept in the  *)
(* function's static storage.  The target is the eZ80: int is 24 bits,     *)
(* long and unsigned long are 32 bits (include/mos_api.h uses uint24_t for *)
(* the native word).  time_t is declared in <time.h>; it is taken as the   *)
(* signed 32-bit long.                                                     *)
(***************************************************************************)
EXTENDS Integers, Sequences, FiniteSets, TLC

VARIABLES
    dpm,        \* static uint8_t dpm[12] of gmtime
    tm2,        \* static struct tm tm2 of gmtime
    ncalls,     \* the calls made so far, counted up to two
    arg,        \* *tp of the latest call
    ret,        \* the pointer the latest call returned
    held,       \* the pointer the call before the latest returned
    prevArg,    \* *tp of the call before the latest
    prevTm      \* what the caller read through the pointer before the latest call

vars == <<dpm, tm2, ncalls, arg, ret, held, prevArg, prevTm>>

(***************************************************************************)
(* Integer types and the macros of gmtime.c.  A 32-bit value is kept as    *)
(* the integer of its two's-complement bit pattern, TIME_MIN..TIME_MAX: a  *)
(* time_t is that integer, an unsigned long u is u when u < 2^31 and       *)
(* u - 2^32 otherwise.                                                     *)
(***************************************************************************)

\* LONG_MAX of the target, 2^31 - 1
TIME_MAX == 2147483647

TIME_MIN == -TIME_MAX - 1

SECS_PER_DAY == 86400

SECS_PER_HOUR == 3600

SECS_PER_MIN == 60

SECS_PER_YEAR == 365 * SECS_PER_DAY

SECS_PER_LEAP == SECS_PER_YEAR + SECS_PER_DAY

\* x + c modulo 2^32, for 0 <= c <= TIME_MAX
AddWrap(x, c) ==
    IF x > TIME_MAX - c THEN TIME_MIN + (c - (TIME_MAX - x) - 1) ELSE x + c

\* x - c modulo 2^32, for 0 <= c <= TIME_MAX
SubWrap(x, c) ==
    IF x < TIME_MIN + c THEN TIME_MAX - (c - (x - TIME_MIN) - 1) ELSE x - c

\* (unsigned long)x / c, for 0 < c <= TIME_MAX: for a negative pattern the
\* value is (x - TIME_MIN) + TIME_MAX + 1
UDiv(x, c) ==
    IF x >= 0
    THEN x \div c
    ELSE LET a == x - TIME_MIN
         IN  (a \div c) + (TIME_MAX \div c)
                 + (((a % c) + (TIME_MAX % c) + 1) \div c)

\* (unsigned long)x >= c, for 0 <= c <= TIME_MAX
UGe(x, c) == x < 0 \/ x >= c

\* extern bool __isleap(int year): the Gregorian rule
isleap(year) == (year % 4 = 0) /\ ((year % 100 # 0) \/ (year % 400 = 0))

\* istmleap without line 25 (year += 1900)
istmleapNoBase(year) == isleap(year)

\* lines 23-28
istmleap(year) == isleap(year + 1900)

(***************************************************************************)
(* The static objects                                                      *)
(***************************************************************************)

DpmInit == [i \in 0..11 |->
              CASE i = 1 -> 28
                [] i \in {3, 5, 8, 10} -> 30
                [] OTHER -> 31]

\* static struct tm tm2: zero-initialised static storage
Tm2Init == [tm_sec |-> 0, tm_min |-> 0, tm_hour |-> 0, tm_mday |-> 0,
            tm_mon |-> 0, tm_year |-> 0, tm_wday |-> 0, tm_yday |-> 0,
            tm_isdst |-> 0]

NullPtr == [kind |-> "null", val |-> Tm2Init]

(***************************************************************************)
(* gmtime, statement by statement                                          *)
(***************************************************************************)

\* line 46 with + 3 for + 4
WeekDayOff(t) == (UDiv(t, SECS_PER_DAY) + 3) % 7

\* line 46: t / SECS_PER_DAY is an unsigned long division (t is converted)
WeekDay(t) == (UDiv(t, SECS_PER_DAY) + 4) % 7

\* lines 40-47 with tm_mday started at 0
TmStartDayZero(tm, t) ==
    [tm EXCEPT !.tm_sec = 0, !.tm_min = 0, !.tm_hour = 0, !.tm_mday = 0,
               !.tm_mon = 0, !.tm_year = 70,
               !.tm_wday = (UDiv(t, SECS_PER_DAY) + 4) % 7, !.tm_isdst = -1]

\* lines 40-47
TmStart(tm, t) ==
    [tm EXCEPT !.tm_sec = 0, !.tm_min = 0, !.tm_hour = 0, !.tm_mday = 1,
               !.tm_mon = 0, !.tm_year = 70, !.tm_wday = WeekDay(t),
               !.tm_isdst = -1]

\* lines 49 and 57: istmleap(year) ? SECS_PER_LEAP : SECS_PER_YEAR
SecsThisYear(year) == IF istmleap(year) THEN SECS_PER_LEAP ELSE SECS_PER_YEAR

\* lines 49-53: the comparison is between two time_t, hence signed
RECURSIVE YearForward(_, _)
YearForward(t, tm) ==
    LET secs_this_year == SecsThisYear(tm.tm_year)
    IN  IF t >= secs_this_year
        THEN YearForward(SubWrap(t, secs_this_year),
                         [tm EXCEPT !.tm_year = @ + 1])
        ELSE [t |-> t, tm |-> tm]

\* lines 55-58: --tm2.tm_year, then t += the length of that year
RECURSIVE YearBackward(_, _)
YearBackward(t, tm) ==
    IF t < 0
    THEN LET year == tm.tm_year - 1
         IN  YearBackward(AddWrap(t, SecsThisYear(year)),
                          [tm EXCEPT !.tm_year = year])
    ELSE [t |-> t, tm |-> tm]

\* line 60 counting the days of the year from 1
DayOfYearFromOne(t) == UDiv(t, SECS_PER_DAY) + 1

\* line 60
DayOfYear(t) == UDiv(t, SECS_PER_DAY)

\* lines 62-65
LeapFebruary(d, year) == IF istmleap(year) THEN [d EXCEPT ![1] = 29] ELSE d

\* lines 67-70: unsigned long comparison and subtraction
RECURSIVE MonthWalk(_, _, _)
MonthWalk(t, tm, d) ==
    IF UGe(t, d[tm.tm_mon] * SECS_PER_DAY)
    THEN MonthWalk(SubWrap(t, d[tm.tm_mon] * SECS_PER_DAY),
                   [tm EXCEPT !.tm_mon = @ + 1], d)
    ELSE [t |-> t, tm |-> tm]

\* line 72 left out
KeepFebruary(d) == d

\* line 72
RestoreFebruary(d) == [d EXCEPT ![1] = 28]

\* lines 74-78 without tm_mday++
RECURSIVE DayWalkNoIncrement(_, _)
DayWalkNoIncrement(t, tm) ==
    IF UGe(t, SECS_PER_DAY)
    THEN DayWalkNoIncrement(SubWrap(t, SECS_PER_DAY), tm)
    ELSE [t |-> t, tm |-> tm]

\* lines 74-78
RECURSIVE DayWalk(_, _)
DayWalk(t, tm) ==
    IF UGe(t, SECS_PER_DAY)
    THEN DayWalk(SubWrap(t, SECS_PER_DAY), [tm EXCEPT !.tm_mday = @ + 1])
    ELSE [t |-> t, tm |-> tm]

\* lines 80-84 with > for >=
RECURSIVE HourWalkStrict(_, _)
HourWalkStrict(t, tm) ==
    IF UGe(t, SECS_PER_HOUR + 1)
    THEN HourWalkStrict(SubWrap(t, SECS_PER_HOUR), [tm EXCEPT !.tm_hour = @ + 1])
    ELSE [t |-> t, tm |-> tm]

\* lines 80-84
RECURSIVE HourWalk(_, _)
HourWalk(t, tm) ==
    IF UGe(t, SECS_PER_HOUR)
    THEN HourWalk(SubWrap(t, SECS_PER_HOUR), [tm EXCEPT !.tm_hour = @ + 1])
    ELSE [t |-> t, tm |-> tm]

\* lines 86-90
RECURSIVE MinWalk(_, _)
MinWalk(t, tm) ==
    IF UGe(t, SECS_PER_MIN)
    THEN MinWalk(SubWrap(t, SECS_PER_MIN), [tm EXCEPT !.tm_min = @ + 1])
    ELSE [t |-> t, tm |-> tm]

\* line 94 returning a record of the call's own
ReturnCopy(tm) == [kind |-> "copy", val |-> tm]

\* line 94: return &tm2
ReturnValue(tm) == [kind |-> "static", val |-> Tm2Init]

\* what a caller reads through a pointer gmtime returned
Deref(p, static) == IF p.kind = "static" THEN static ELSE p.val

\* lines 30-95: the whole call, from the statics (tm, d) and the argument
gmtime(tp, tm, d) ==
    LET s0 == TmStart(tm, tp)
        s1 == YearForward(tp, s0)
        s2 == YearBackward(s1.t, s1.tm)
        s3 == [s2.tm EXCEPT !.tm_yday = DayOfYear(s2.t)]
        dl == LeapFebruary(d, s3.tm_year)
        s4 == MonthWalk(s2.t, s3, dl)
        s5 == DayWalk(s4.t, s4.tm)
        s6 == HourWalk(s5.t, s5.tm)
        s7 == MinWalk(s6.t, s6.tm)
        s8 == [s7.tm EXCEPT !.tm_sec = s7.t]
    IN  [tm |-> s8, dpm |-> RestoreFebruary(dl), ret |-> ReturnValue(s8)]

(***************************************************************************)
(* The proleptic Gregorian calendar, in closed form: the reference the     *)
(* results are compared with and the inputs are built from.  Months are    *)
(* numbered 1..12 here and days 1..31.                                     *)
(***************************************************************************)

Gregorian(Y) == (Y % 4 = 0) /\ ((Y % 100 # 0) \/ (Y % 400 = 0))

LeapsThrough(Y) == (Y \div 4) - (Y \div 100) + (Y \div 400)

DaysBeforeYear(Y) == 365 * (Y - 1970) + LeapsThrough(Y - 1) - LeapsThrough(1969)

CumDays == <<0, 31, 59, 90, 120, 151, 181, 212, 243, 273, 304, 334>>

DaysBeforeMonth(Y, m) == CumDays[m] + (IF m > 2 /\ Gregorian(Y) THEN 1 ELSE 0)

Instant(Y, m, d, hh, mm, ss) ==
    (DaysBeforeYear(Y) + DaysBeforeMonth(Y, m) + (d - 1)) * 86400
        + hh * 3600 + mm * 60 + ss

(***************************************************************************)
(* Inputs                                                                  *)
(***************************************************************************)

\* days on either side of the epoch converted at every sampled second
DenseDays == 2000

\* years on either side of 1970 whose February and year ends are converted
YearRadius == 68

\* days on either side of the epoch in the inputs of call sequences
PairDays == 2

SecondSamples == {0, 1, 59, 60, 3599, 3600, 43200, 86399}

Years == (1970 - YearRadius)..(1970 + YearRadius)

\* the days (counted from 1970-01-01) that lie wholly within time_t
DayInRange(n) == -(TIME_MAX \div 86400) <= n /\ n < TIME_MAX \div 86400

\* the day holding the instant 86400 seconds after Y-02-28T00:00:00
FebBoundaryDay == [Y \in Years |-> DaysBeforeYear(Y) + 31 + 28]

YearMarkDays ==
    UNION { { DaysBeforeYear(Y) - 1, DaysBeforeYear(Y),
              FebBoundaryDay[Y] - 1, FebBoundaryDay[Y], FebBoundaryDay[Y] + 1,
              DaysBeforeYear(Y + 1) - 1 } : Y \in Years }

WideInputs ==
    { n * 86400 + s : n \in { k \in (-DenseDays)..DenseDays : DayInRange(k) },
                      s \in SecondSamples }
    \cup { n * 86400 + s : n \in { k \in YearMarkDays : DayInRange(k) },
                           s \in {0, 86399} }
    \cup {TIME_MIN, TIME_MIN + 1, TIME_MAX - 1, TIME_MAX}

Inputs ==
    { n * 86400 + s : n \in (-PairDays)..PairDays, s \in {0, 3600, 86399} }
    \cup { Instant(1968, 2, 29, 12, 0, 0), Instant(1968, 12, 31, 23, 59, 59),
           Instant(1969, 3, 1, 0, 0, 0), Instant(1970, 3, 1, 0, 0, 0),
           Instant(1971, 1, 1, 0, 0, 0), Instant(1972, 2, 29, 0, 0, 0),
           Instant(1972, 3, 1, 0, 0, 0), Instant(1972, 12, 31, 0, 0, 0),
           Instant(2000, 2, 28, 0, 0, 0), Instant(2000, 2, 29, 0, 0, 0),
           Instant(2000, 3, 1, 0, 0, 0), Instant(2001, 3, 1, 0, 0, 0),
           59, 60, 3599, TIME_MIN, TIME_MAX }

(***************************************************************************)
(* The specifications                                                      *)
(***************************************************************************)

Init ==
    /\ dpm = DpmInit
    /\ tm2 = Tm2Init
    /\ ncalls = 0
    /\ arg = 0
    /\ ret = NullPtr
    /\ held = NullPtr
    /\ prevArg = 0
    /\ prevTm = Tm2Init

\* one call gmtime(&e) by a caller that read the previous result before it
Call(e) ==
    LET r == gmtime(e, tm2, dpm)
    IN  /\ tm2' = r.tm
        /\ dpm' = r.dpm
        /\ ret' = r.ret
        /\ ncalls' = IF ncalls < 2 THEN ncalls + 1 ELSE ncalls
        /\ arg' = e
        /\ held' = ret
        /\ prevArg' = arg
        /\ prevTm' = Deref(ret, tm2)

Convert == \E e \in Inputs : Call(e)

Next == Convert

\* any sequence of calls over Inputs
Spec == Init /\ [][Next]_vars

ConvertOnce == ncalls = 0 /\ \E e \in WideInputs : Call(e)

NextOnce == ConvertOnce

\* a single call, over WideInputs
SpecOnce == Init /\ [][NextOnce]_vars

\* the record the latest call returned, as its caller reads it
Res == Deref(ret, tm2)

Called == ncalls >= 1

\* two calls were made: prevArg, prevTm and held are those of the earlier one
CalledTwice == ncalls >= 2

TypeOK ==
    /\ dpm \in [0..11 -> 0..255]
    /\ ncalls \in 0..2
    /\ TIME_MIN <= arg /\ arg <= TIME_MAX
    /\ ret.kind \in {"null", "static"}

(***************************************************************************)
(* What the claims measure the result with                                 *)
(***************************************************************************)

\* the length in days of month mon (0..11) of the year tm_year + 1900
MonthLength(year, mon) ==
    IF mon = 1
    THEN (IF isleap(year + 1900) THEN 29 ELSE 28)
    ELSE <<31, 28, 31, 30, 31, 30, 31, 31, 30, 31, 30, 31>>[mon + 1]

YearLength(year) == IF isleap(year + 1900) THEN 366 ELSE 365

\* the days of the months before mon in that year
RECURSIVE DaysBefore(_, _)
DaysBefore(year, mon) ==
    IF mon <= 0 THEN 0
    ELSE DaysBefore(year, mon - 1) + MonthLength(year, mon - 1)

\* the days of the whole years between 1970 and tm_year + 1900, negative for
\* the years before 1970
RECURSIVE DaysToYear(_)
DaysToYear(year) ==
    IF year = 70 THEN 0
    ELSE IF year > 70 THEN DaysToYear(year - 1) + YearLength(year - 1)
    ELSE DaysToYear(year + 1) - YearLength(year)

\* seconds since 1970 recomputed from a breakdown, as a day count and the
\* second within that day
DayCount(tm) == DaysToYear(tm.tm_year) + DaysBefore(tm.tm_year, tm.tm_mon) + (tm.tm_mday - 1)

SecondOfDay(tm) == tm.tm_hour * 3600 + tm.tm_min * 60 + tm.tm_sec

\* the recomputed seconds equal e (e = day * 86400 + second, written so that
\* no intermediate leaves the range of the integers)
RecomputesTo(tm, e) ==
    /\ DayCount(tm) = e \div 86400
    /\ SecondOfDay(tm) = e % 86400

\* C1: recomputing seconds-since-1970 from the breakdown gmtime(E) returned
\* gives E, for negative, zero and positive E
RoundTrip == Called => RecomputesTo(Res, arg)

RoundTripWitness ==
    /\ Called /\ arg = -1
    /\ Res.tm_year = 69 /\ Res.tm_mon = 11 /\ Res.tm_mday = 31
    /\ Res.tm_hour = 23 /\ Res.tm_min = 59 /\ Res.tm_sec = 59
    /\ RecomputesTo(Res, arg)

\* C2: every field of the breakdown lies in its range: seconds and minutes in
\* 0..59, hours in 0..23, month in 0..11, dayOfMonth in 1..the length of the
\* resolved month, dayOfYear in 0..(the length of the resolved year - 1)
FieldRanges ==
    Called =>
        /\ Res.tm_sec \in 0..59
        /\ Res.tm_min \in 0..59
        /\ Res.tm_hour \in 0..23
        /\ Res.tm_mon \in 0..11
        /\ Res.tm_mday >= 1
        /\ Res.tm_mday <= MonthLength(Res.tm_year, Res.tm_mon)
        /\ Res.tm_yday >= 0
        /\ Res.tm_yday <= YearLength(Res.tm_year) - 1

FieldRangesWitness ==
    /\ Called /\ arg < 0
    /\ Res.tm_year = 68 /\ Res.tm_mon = 11 /\ Res.tm_mday = 31
    /\ Res.tm_hour = 23 /\ Res.tm_min = 59 /\ Res.tm_sec = 59
    /\ Res.tm_yday = 365

\* C3: dayOfWeek is the weekday of the resolved date for every input:
\* (dayOfWeek of gmtime(0) + floor(E / 86400)) mod 7, so gmtime(-1) gives the
\* day before the epoch's Thursday
WeekdayOfDate ==
    Called =>
        /\ Res.tm_wday \in 0..6
        /\ Res.tm_wday = (gmtime(0, Tm2Init, DpmInit).tm.tm_wday + (arg \div 86400)) % 7

\* C7: gmtime(0) is 1970-01-01T00:00:00 with dayOfYear 0 and dayOfWeek 0
EpochWeekdayZero ==
    (Called /\ arg = 0) =>
        /\ Res.tm_year = 70 /\ Res.tm_mon = 0 /\ Res.tm_mday = 1
        /\ Res.tm_hour = 0 /\ Res.tm_min = 0 /\ Res.tm_sec = 0
        /\ Res.tm_yday = 0
        /\ Res.tm_wday = 0

\* C7, amended: gmtime(0) is 1970-01-01T00:00:00 with dayOfYear 0 and
\* dayOfWeek 4, Thursday counted from Sunday = 0
EpochInstant ==
    (Called /\ arg = 0) =>
        /\ Res.tm_year = 70 /\ Res.tm_mon = 0 /\ Res.tm_mday = 1
        /\ Res.tm_hour = 0 /\ Res.tm_min = 0 /\ Res.tm_sec = 0
        /\ Res.tm_yday = 0
        /\ Res.tm_wday = 4

EpochInstantWitness == Called /\ arg = 0 /\ Res.tm_wday = 4 /\ Res.tm_year = 70

\* C10: dayOfYear is the days of the months before `month` in the resolved
\* year plus dayOfMonth - 1; it is 0 exactly on January 1, and 1 for E = 86400
DayOfYearConsistent ==
    Called =>
        /\ Res.tm_yday = DaysBefore(Res.tm_year, Res.tm_mon) + Res.tm_mday - 1
        /\ (Res.tm_yday = 0) <=> (Res.tm_mon = 0 /\ Res.tm_mday = 1)
        /\ (arg = 86400) => (Res.tm_yday = 1)

DayOfYearWitness ==
    /\ Called /\ Res.tm_year = 72 /\ Res.tm_mon = 2 /\ Res.tm_mday = 1
    /\ Res.tm_yday = 60

\* C4: the instant 86400 seconds after Y-02-28T00:00:00 is February 29 exactly
\* when Y is a Gregorian leap year and March 1 otherwise, and the year walk
\* takes 366 * 86400 seconds for exactly those years
LeapYearBoundary ==
    Called =>
        /\ \A Y \in Years :
              (DayInRange(FebBoundaryDay[Y]) /\ arg = FebBoundaryDay[Y] * 86400) =>
                  /\ Res.tm_year = Y - 1900
                  /\ IF Gregorian(Y)
                     THEN Res.tm_mon = 1 /\ Res.tm_mday = 29
                     ELSE Res.tm_mon = 2 /\ Res.tm_mday = 1
        /\ SecsThisYear(Res.tm_year) =
              (IF Gregorian(Res.tm_year + 1900) THEN 366 ELSE 365) * 86400

LeapYearBoundaryWitness ==
    /\ Called /\ arg = FebBoundaryDay[2000] * 86400
    /\ Res.tm_year = 100 /\ Res.tm_mon = 1 /\ Res.tm_mday = 29

\* the tuple the breakdowns are ordered by
Key(tm) == <<tm.tm_year, tm.tm_mon, tm.tm_mday, tm.tm_hour, tm.tm_min, tm.tm_sec>>

\* a <= b in the lexicographic order of tuples of equal length
LexLE(a, b) ==
    \/ a = b
    \/ \E i \in 1..Len(a) : a[i] < b[i] /\ \A j \in 1..(i - 1) : a[j] = b[j]

\* C5: for E1 < E2 the breakdown of E2 is lexicographically >= that of E1
Monotonic ==
    CalledTwice =>
        /\ (prevArg < arg) => LexLE(Key(prevTm), Key(Res))
        /\ (arg < prevArg) => LexLE(Key(Res), Key(prevTm))

MonotonicWitness ==
    /\ CalledTwice /\ prevArg < 0 /\ arg > 0
    /\ Key(prevTm) # Key(Res) /\ LexLE(Key(prevTm), Key(Res))
    /\ prevTm.tm_year = 69 /\ Res.tm_year = 70

\* C8: every call returns the same record, so after gmtime(E1) then gmtime(E2)
\* the record the first call returned holds the breakdown of E2
SharedResult ==
    CalledTwice =>
        /\ held = ret
        /\ Deref(held, tm2) = Res
        /\ RecomputesTo(Deref(held, tm2), arg)
        /\ Deref(held, tm2).tm_isdst = -1

SharedResultWitness ==
    /\ CalledTwice /\ prevArg # arg /\ held = ret
    /\ RecomputesTo(prevTm, prevArg)
    /\ prevTm # Deref(held, tm2)
    /\ RecomputesTo(Deref(held, tm2), arg)

\* C9: the month-length table is {31,28,31,30,31,30,31,31,30,31,30,31} between
\* calls, and the result for E is that of a first call, whatever was
\* converted before
HistoryIndependent ==
    /\ \A i \in 0..11 :
          dpm[i] = <<31, 28, 31, 30, 31, 30, 31, 31, 30, 31, 30, 31>>[i + 1]
    /\ Called => tm2 = gmtime(arg, Tm2Init, DpmInit).tm

HistoryIndependentWitness ==
    /\ CalledTwice
    /\ istmleap(prevTm.tm_year) /\ prevTm.tm_mon >= 1
    /\ ~istmleap(tm2.tm_year) /\ tm2.tm_mon = 2 /\ tm2.tm_mday = 1
    /\ dpm[1] = 28

====
